---- MODULE Spec2Model ----
(***************************************************************************)
(* Model of the project-analyzer pipeline of project-catalyst:             *)
(*   PatternDetector   (skills/project-analyzer/scripts/detect-patterns.py)*)
(*   ReportGenerator   (skills/project-analyzer/scripts/generate-report.py)*)
(*   MemoryIntegration (skills/project-analyzer/scripts/memory_integration.py)*)
(*   ProjectAnalyzer   (skills/project-analyzer/scripts/analyze-structure.py)*)
(*                                                                         *)
(* Strings on which the code does prefix, suffix or substring tests are    *)
(* sequences of tokens; the tokens are cut so that every needle the code   *)
(* searches for starts and ends on a token boundary.                       *)
(* Python dicts are records; an absent key is an absent field.             *)
(***************************************************************************)
EXTENDS Integers, Sequences, FiniteSets, TLC

VARIABLES
    patterns,          \* PatternDetector.patterns (the loaded rule list)
    project_structure, \* the inventory handed to detect()
    pc,                \* position in detect(): ready / loop / done / raised
    idx,               \* number of rules the loop of detect() has processed
    detections,        \* results['detections']
    recommendations,   \* results['recommendations']
    summary,           \* results['summary']
    health,            \* outcome of MemoryIntegration._calculate_health_score
    line,              \* outcome of ReportGenerator._generate_health_score
    project_tree,      \* the directory ProjectAnalyzer is constructed on
    inventory,         \* outcome of ProjectAnalyzer.scan_structure
    project_path,      \* what the path given to ProjectAnalyzer names
    analyzer,          \* outcome of ProjectAnalyzer(project_path)
    session_id,        \* MemoryIntegration.session_id
    params,            \* outcome of the last MemoryIntegration call
    report,            \* outcome of ReportGenerator.generate_report
    previous           \* the results of the run before this one

vars == <<patterns, project_structure, pc, idx, detections, recommendations,
          summary, health, line, project_tree, inventory, project_path,
          analyzer, session_id, params, report, previous>>

(***************************************************************************)
(* Bounds of the model.                                                    *)
(***************************************************************************)
MaxRules == 3
MaxTotal == 13
MaxSeverityCount == 10

(***************************************************************************)
(* str.endswith, str.startswith and the substring test `needle in s`.      *)
(***************************************************************************)
EndsWith(s, suffix) ==
    /\ Len(suffix) <= Len(s)
    /\ SubSeq(s, Len(s) - Len(suffix) + 1, Len(s)) = suffix

StartsWith(s, prefix) ==
    /\ Len(prefix) <= Len(s)
    /\ SubSeq(s, 1, Len(prefix)) = prefix

Contains(s, needle) ==
    \E k \in 0..(Len(s) - Len(needle)) : SubSeq(s, k + 1, k + Len(needle)) = needle

\* dict.get(key, default)
Get(d, key, default) == IF key \in DOMAIN d THEN d[key] ELSE default

(***************************************************************************)
(* Paths and condition texts, as token sequences.                          *)
(***************************************************************************)
PackageJson == <<"package.json">>
ReadmeMd == <<"README.md">>
DocsReadmeMd == <<"docs", "/", "README.md">>
GitignoreFile == <<".git", "ignore">>
EslintrcJson == <<".eslintrc.json">>
SecurityMd == <<"SECURITY.md">>
ChangelogMd == <<"CHANGELOG.md">>
LicenseFile == <<"LICENSE">>
LicenseMd == <<"LICENSE", ".md">>
GithubWorkflows == <<".git", "hub", "/", "workflows">>
GitlabCiYml == <<".git", "lab-ci", ".yml">>
TestsDir == <<"tests">>
RequirementsTxt == <<"requirements.txt">>
SetupPy == <<"setup.py">>

CondPackageJson == <<"package.json exists">>
CondPython == <<"requirements.txt", " or ", "setup.py exists">>
CondJava == <<"pom.xml", " or ", "build.gradle exists">>
CondDocker == <<"Dockerfile exists">>

StrCheck(p) == [form |-> "str", paths |-> <<p>>]
ListCheck(ps) == [form |-> "list", paths |-> ps]
\* pattern.get('check') of a rule without a check: None.
NoCheck == [form |-> "none", paths |-> <<>>]

(***************************************************************************)
(* The rules a configuration may hold.  A loaded rule set is a sequence of *)
(* at most MaxRules of them with pairwise distinct ids.                    *)
(***************************************************************************)
RuleCatalogue ==
    { [id |-> "missing-readme", type |-> "file_absence",
       check |-> StrCheck(ReadmeMd), confidence |-> "high", severity |-> "high",
       recommendation |-> [template |-> "documentation/README", reason |-> "readme"]],
      [id |-> "missing-gitignore", type |-> "file_absence",
       check |-> StrCheck(GitignoreFile), confidence |-> "high", severity |-> "medium",
       recommendation |-> [template |-> "git/gitignore", reason |-> "gitignore",
                           variants |-> << [condition |-> CondPackageJson,
                                            template |-> "git/gitignore-node"],
                                           [condition |-> CondPython,
                                            template |-> "git/gitignore-python"],
                                           [condition |-> CondJava,
                                            template |-> "git/gitignore-java"] >>]],
      [id |-> "missing-ci-workflow", type |-> "directory_absence",
       check |-> ListCheck(<<GithubWorkflows, GitlabCiYml>>),
       confidence |-> "high", severity |-> "high",
       recommendation |-> [template |-> "ci-cd/github-actions", reason |-> "ci"]],
      [id |-> "missing-eslint", type |-> "file_absence",
       check |-> StrCheck(EslintrcJson), applies_when |-> CondPackageJson,
       confidence |-> "medium", severity |-> "medium",
       recommendation |-> [template |-> "quality/eslint", reason |-> "lint"]],
      [id |-> "missing-tests", type |-> "directory_absence",
       check |-> StrCheck(TestsDir), applies_when |-> CondDocker,
       confidence |-> "medium", severity |-> "medium",
       recommendation |-> [template |-> "setup/tests", reason |-> "tests"]],
      [id |-> "missing-license", type |-> "file_absence",
       check |-> ListCheck(<<LicenseFile, LicenseMd>>),
       confidence |-> "medium", severity |-> "low",
       recommendation |-> [template |-> "documentation/LICENSE", reason |-> "license"]],
      [id |-> "readme-minimal", type |-> "file_quality",
       check |-> StrCheck(ReadmeMd), criteria |-> [min_lines |-> 10],
       confidence |-> "medium", severity |-> "low",
       recommendation |-> [template |-> "documentation/README", reason |-> "short"]],
      [id |-> "missing-editorconfig", type |-> "file_absence",
       check |-> StrCheck(<<".editorconfig">>), confidence |-> "low", severity |-> "low",
       recommendation |-> [template |-> "setup/editorconfig", reason |-> "editor"]],
      [id |-> "missing-security-policy", type |-> "file_absence",
       check |-> StrCheck(SecurityMd), confidence |-> "high", severity |-> "critical",
       recommendation |-> [template |-> "documentation/SECURITY", reason |-> "security"]],
      [id |-> "missing-changelog", type |-> "file_absence",
       check |-> StrCheck(ChangelogMd), confidence |-> "certain", severity |-> "low"],
      [id |-> "missing-setup-py", type |-> "file_absence",
       check |-> StrCheck(SetupPy), applies_when |-> CondPython,
       recommendation |-> [template |-> "setup/python", reason |-> "python"]] }

RuleSets ==
    { ps \in UNION { [1..n -> RuleCatalogue] : n \in 0..MaxRules } :
        \A a, b \in DOMAIN ps : a # b => ps[a].id # ps[b].id }

(***************************************************************************)
(* The inventories detect() is called on.                                  *)
(***************************************************************************)
FilePool == { PackageJson, RequirementsTxt }
DirectoryPool == { GithubWorkflows }

Inventories ==
    { [files |-> fs, directories |-> ds] :
        fs \in SUBSET FilePool, ds \in SUBSET DirectoryPool }

NoInventory == [files |-> {}, directories |-> {}]

(***************************************************************************)
(* PatternDetector: the rule checks.  A check that raises is the record    *)
(* Raised(exception); one that returns is Returned(value).                 *)
(***************************************************************************)
Returned(v) == [raised |-> FALSE, value |-> v, error |-> "none"]
Raised(e) == [raised |-> TRUE, value |-> FALSE, error |-> e]

\* `check not in files` hashes check: a list is unhashable and raises.
\* None is hashable and in no inventory, but f.endswith(None) raises for the
\* first file f.
_check_file_absence(check, files) ==
    IF check.form = "list"
    THEN Raised("TypeError")
    ELSE IF check.form = "none"
    THEN IF files = {} THEN Returned(TRUE) ELSE Raised("TypeError")
    ELSE Returned(/\ check.paths[1] \notin files
                  /\ ~ \E f \in files : EndsWith(f, check.paths[1]))

\* The for loop of _check_directory_absence from position k on.
RECURSIVE DirectoryAbsentFrom(_, _, _)
DirectoryAbsentFrom(paths, k, directories) ==
    IF k > Len(paths)
    THEN TRUE
    ELSE IF EndsWith(paths[k], <<".yml">>) \/ EndsWith(paths[k], <<".yaml">>)
         THEN TRUE
         ELSE IF \E d \in directories : StartsWith(d, paths[k])
              THEN FALSE
              ELSE DirectoryAbsentFrom(paths, k + 1, directories)

\* `for path in check` raises for None.
_check_directory_absence(check, directories) ==
    IF check.form = "none"
    THEN Raised("TypeError")
    ELSE Returned(DirectoryAbsentFrom(check.paths, 1, directories))

_check_file_quality(file_path, criteria, structure) ==
    IF ~ (file_path.form = "str" /\ file_path.paths[1] \in structure.files)
    THEN Returned(FALSE)
    ELSE Returned(FALSE)

_check_condition(condition, files, directories) ==
    IF Contains(condition, <<"package.json exists">>)
    THEN PackageJson \in files
    ELSE IF Contains(condition, <<"requirements.txt">>)
            \/ Contains(condition, <<"setup.py exists">>)
         THEN RequirementsTxt \in files \/ SetupPy \in files
         ELSE IF Contains(condition, <<"pom.xml">>)
                 \/ Contains(condition, <<"build.gradle exists">>)
              THEN \E f \in files : Contains(f, <<"pom.xml">>)
                                    \/ Contains(f, <<"build.gradle">>)
              ELSE TRUE

\* Index of the first variant whose condition holds, 0 for None.
RECURSIVE SelectVariantFrom(_, _, _, _)
SelectVariantFrom(variants, k, files, directories) ==
    IF k > Len(variants)
    THEN 0
    ELSE IF _check_condition(Get(variants[k], "condition", <<>>), files, directories)
         THEN k
         ELSE SelectVariantFrom(variants, k + 1, files, directories)

\* Variant of _select_variant that keeps looking and returns the last
\* variant whose condition holds.
_select_variant_last_match(variants, files, directories) ==
    LET hits == { k \in 1..Len(variants) :
                    _check_condition(Get(variants[k], "condition", <<>>),
                                     files, directories) }
    IN  IF hits = {} THEN 0 ELSE CHOOSE k \in hits : \A j \in hits : j <= k

_select_variant(variants, files, directories) ==
    SelectVariantFrom(variants, 1, files, directories)

\* `if applies_when:` is false for an absent key (None) and for ''.
AppliesWhen(pattern) == Get(pattern, "applies_when", <<>>)

Applicable(pattern, files, directories) ==
    AppliesWhen(pattern) # <<>> =>
        _check_condition(AppliesWhen(pattern), files, directories)

\* Lines 108-116 of _apply_pattern: the dispatch on the rule type.
IssueFound(pattern, files, directories, structure) ==
    IF Get(pattern, "type", "None") = "file_absence"
    THEN _check_file_absence(Get(pattern, "check", NoCheck), files)
    ELSE IF Get(pattern, "type", "None") = "directory_absence"
         THEN _check_directory_absence(Get(pattern, "check", NoCheck), directories)
         ELSE IF Get(pattern, "type", "None") = "file_quality"
              THEN _check_file_quality(Get(pattern, "check", NoCheck),
                                       Get(pattern, "criteria", <<>>),
                                       structure)
              ELSE Returned(FALSE)

\* Lines 118-127 of _apply_pattern: the recommendation of a detection.
SelectedRecommendation(pattern, files, directories) ==
    LET recommendation == pattern.recommendation
        variant == IF "variants" \in DOMAIN recommendation
                   THEN _select_variant(recommendation.variants, files, directories)
                   ELSE 0
    IN  IF variant # 0
        THEN [recommendation EXCEPT !.template = recommendation.variants[variant].template]
        ELSE recommendation

\* Variant of WithRecommendation that forgets the issue_found test.
WithRecommendationUnconditional(detection, pattern, files, directories) ==
    IF "recommendation" \in DOMAIN pattern
    THEN detection @@ [recommendation |->
                          SelectedRecommendation(pattern, files, directories)]
    ELSE detection

WithRecommendation(detection, pattern, files, directories) ==
    IF detection.issue_found /\ "recommendation" \in DOMAIN pattern
    THEN detection @@ [recommendation |->
                          SelectedRecommendation(pattern, files, directories)]
    ELSE detection

\* Variant of _apply_pattern that reports a rule that does not apply as a
\* detection without an issue instead of returning None.
_apply_pattern_reporting_inapplicable(pattern, files, directories, structure) ==
    LET found == IF Applicable(pattern, files, directories)
                 THEN IssueFound(pattern, files, directories, structure)
                 ELSE [raised |-> FALSE, value |-> FALSE, error |-> "none"]
        detection == [id |-> Get(pattern, "id", "None"),
                      type |-> Get(pattern, "type", "None"),
                      confidence |-> Get(pattern, "confidence", "medium"),
                      severity |-> Get(pattern, "severity", "medium"),
                      issue_found |-> found.value]
    IN  IF found.raised
        THEN [kind |-> "raise", error |-> found.error]
        ELSE [kind |-> "detection",
              detection |-> IF detection.issue_found /\ "recommendation" \in DOMAIN pattern
                            THEN detection @@ [recommendation |->
                                   SelectedRecommendation(pattern, files, directories)]
                            ELSE detection]

\* _apply_pattern: kind is "none" (returns None), "detection" or "raise".
NotApplicable == [kind |-> "none"]

_apply_pattern(pattern, files, directories, structure) ==
    IF ~ Applicable(pattern, files, directories)
    THEN NotApplicable
    ELSE LET found == IssueFound(pattern, files, directories, structure)
             detection == [id |-> Get(pattern, "id", "None"),
                           type |-> Get(pattern, "type", "None"),
                           confidence |-> Get(pattern, "confidence", "medium"),
                           severity |-> Get(pattern, "severity", "medium"),
                           issue_found |-> found.value]
         IN  IF found.raised
             THEN [kind |-> "raise", error |-> found.error]
             ELSE [kind |-> "detection",
                   detection |-> WithRecommendation(detection, pattern,
                                                    files, directories)]

(***************************************************************************)
(* PatternDetector._calculate_priority.  The float score is kept in        *)
(* hundredths: the confidence weight and the severity multiplier are in    *)
(* tenths, so 10.0 is 1000 and 2.1 is 210.  The products of the three      *)
(* tables are pairwise distinct or equal as floats exactly as they are as  *)
(* hundredths.                                                             *)
(***************************************************************************)
\* Variant of confidence_map with a weight of 0.2 for low confidence.
confidence_map_low_fifth(c) ==
    IF c = "high" THEN 10 ELSE IF c = "medium" THEN 7 ELSE IF c = "low" THEN 2 ELSE 7

confidence_map(c) ==
    IF c = "high" THEN 10 ELSE IF c = "medium" THEN 7 ELSE IF c = "low" THEN 4 ELSE 7

severity_map(s) ==
    IF s = "high" THEN 10 ELSE IF s = "medium" THEN 5 ELSE IF s = "low" THEN 2 ELSE 5

\* Variant of multiplier_map that leaves medium severity unscaled.
multiplier_map_medium_unscaled(s) ==
    IF s = "high" THEN 10 ELSE IF s = "medium" THEN 10 ELSE IF s = "low" THEN 3 ELSE 6

multiplier_map(s) ==
    IF s = "high" THEN 10 ELSE IF s = "medium" THEN 6 ELSE IF s = "low" THEN 3 ELSE 6

_calculate_priority(detection) ==
    confidence_map(detection.confidence) * multiplier_map(detection.severity)
        * severity_map(detection.severity)

(***************************************************************************)
(* list.sort(key=priority_score, reverse=True): a stable sort, equal keys  *)
(* keep their order.  InsertByPriority puts x behind every element whose   *)
(* score is at least its own.                                              *)
(***************************************************************************)
\* Variant of InsertByPriority for a sort that is not stable: x goes in front
\* of the elements of equal score.
InsertByPriorityUnstable(sorted, x) ==
    LET k == Cardinality({ j \in 1..Len(sorted) :
                             sorted[j].priority_score > x.priority_score })
    IN  SubSeq(sorted, 1, k) \o <<x>> \o SubSeq(sorted, k + 1, Len(sorted))

InsertByPriority(sorted, x) ==
    LET k == Cardinality({ j \in 1..Len(sorted) :
                             sorted[j].priority_score >= x.priority_score })
    IN  SubSeq(sorted, 1, k) \o <<x>> \o SubSeq(sorted, k + 1, Len(sorted))

RECURSIVE SortByPriority(_)
SortByPriority(recs) ==
    IF recs = <<>>
    THEN <<>>
    ELSE InsertByPriority(SortByPriority(SubSeq(recs, 1, Len(recs) - 1)),
                          recs[Len(recs)])

(***************************************************************************)
(* PatternDetector.detect.                                                 *)
(***************************************************************************)
\* Variant of InitialSummary that starts total_patterns at zero like the
\* other counters.
InitialSummaryAllZero(rules) ==
    [total_patterns |-> 0, issues_found |-> 0,
     high_severity |-> 0, medium_severity |-> 0, low_severity |-> 0]

\* Lines 43-49: the summary detect() starts from.
InitialSummary(rules) ==
    [total_patterns |-> Len(rules), issues_found |-> 0,
     high_severity |-> 0, medium_severity |-> 0, low_severity |-> 0]

\* Variant of FoldSummary that counts a detection as an issue whether or
\* not it found one.
FoldSummaryCountingAll(s, detection) ==
    LET counted == [s EXCEPT !.issues_found = @ + 1]
    IN  IF detection.severity = "high"
        THEN [counted EXCEPT !.high_severity = @ + 1]
        ELSE IF detection.severity = "medium"
             THEN [counted EXCEPT !.medium_severity = @ + 1]
             ELSE IF detection.severity = "low"
                  THEN [counted EXCEPT !.low_severity = @ + 1]
                  ELSE counted

\* Lines 61-70: the counters after one detection.
FoldSummary(s, detection) ==
    IF ~ detection.issue_found
    THEN s
    ELSE LET counted == [s EXCEPT !.issues_found = @ + 1]
         IN  IF detection.severity = "high"
             THEN [counted EXCEPT !.high_severity = @ + 1]
             ELSE IF detection.severity = "medium"
                  THEN [counted EXCEPT !.medium_severity = @ + 1]
                  ELSE IF detection.severity = "low"
                       THEN [counted EXCEPT !.low_severity = @ + 1]
                       ELSE counted

\* Lines 72-81: the recommendations after one detection.
FoldRecommendations(recs, detection) ==
    IF detection.issue_found /\ "recommendation" \in DOMAIN detection
    THEN Append(recs, [id |-> detection.id,
                       template |-> detection.recommendation.template,
                       reason |-> detection.recommendation.reason,
                       severity |-> detection.severity,
                       confidence |-> detection.confidence,
                       priority_score |-> _calculate_priority(detection)])
    ELSE recs

NoOutcome == [state |-> "none", raised |-> FALSE, value |-> 0, rating |-> "none"]

\* No project directory is involved, and scan_structure has not been called.
NoTree == [entries |-> {}, package_json |-> [kind |-> "absent"],
           requirements_txt |-> [kind |-> "absent"]]
NotScanned == [state |-> "none"]

\* No analyzer has been constructed; an analyzer constructed on a directory.
NotConstructed == [state |-> "none", error |-> "none"]
Constructed == [state |-> "constructed", error |-> "none"]

\* No MemoryIntegration call, no report and no earlier run yet.
NoParams == [state |-> "none"]
NoReport == [state |-> "none"]
NoPrevious == [state |-> "none"]

\* detect() is entered with an inventory: lines 37-53.
DetectBegin ==
    /\ pc = "ready"
    /\ \E structure \in Inventories : project_structure' = structure
    /\ pc' = "loop"
    /\ idx' = 0
    /\ detections' = <<>>
    /\ recommendations' = <<>>
    /\ summary' = InitialSummary(patterns)
    /\ health' = NoOutcome
    /\ line' = NoOutcome
    /\ UNCHANGED <<patterns, project_tree, inventory,
                   project_path, analyzer, session_id, params, report, previous>>

\* Variant of PatternAfterApply for a recommendation that is the rule's own
\* dict instead of a copy of it: the variant's template lands in the rule.
PatternAfterApplyAliased(pattern, detection) ==
    IF "recommendation" \in DOMAIN detection
    THEN [pattern EXCEPT !.recommendation = detection.recommendation]
    ELSE pattern

\* The rule as _apply_pattern leaves it: the recommendation it edits is a
\* copy (line 120), so the variant's template (line 125) goes into the copy.
PatternAfterApply(pattern, detection) == pattern

\* One iteration of the loop of lines 55-81.
DetectStep ==
    /\ pc = "loop"
    /\ idx < Len(patterns)
    /\ LET applied == _apply_pattern(patterns[idx + 1], project_structure.files,
                                     project_structure.directories, project_structure)
       IN  \/ /\ applied.kind = "raise"
              /\ pc' = "raised"
              /\ UNCHANGED <<patterns, idx, detections, recommendations, summary>>
           \/ /\ applied.kind = "none"
              /\ idx' = idx + 1
              /\ UNCHANGED <<patterns, pc, detections, recommendations, summary>>
           \/ /\ applied.kind = "detection"
              /\ idx' = idx + 1
              /\ patterns' = [patterns EXCEPT ![idx + 1] =
                                 PatternAfterApply(@, applied.detection)]
              /\ detections' = Append(detections, applied.detection)
              /\ summary' = FoldSummary(summary, applied.detection)
              /\ recommendations' = FoldRecommendations(recommendations,
                                                        applied.detection)
              /\ UNCHANGED pc
    /\ UNCHANGED <<project_structure, health, line, project_tree, inventory,
                   project_path, analyzer, session_id, params, report, previous>>

\* Lines 83-86: the loop is over, the recommendations are sorted, detect returns.
DetectReturn ==
    /\ pc = "loop"
    /\ idx = Len(patterns)
    /\ recommendations' = SortByPriority(recommendations)
    /\ pc' = "done"
    /\ UNCHANGED <<patterns, project_structure, idx, detections, summary, health, line,
                   project_tree, inventory,
                   project_path, analyzer, session_id, params, report, previous>>

(***************************************************************************)
(* The health score.  Python computes it in floats:                        *)
(*   max(0, 100 - (issues_found / total_patterns) * 100 - 20*high - 10*medium) *)
(* Here it is the exact fraction HealthTimesTotal / total_patterns.  For   *)
(* total_patterns below 20 the float's truncation, its rounding to zero    *)
(* decimals and its comparisons with 90, 75 and 50 are those of the exact  *)
(* fraction.                                                               *)
(***************************************************************************)
\* Variant of HealthTimesTotal without the max(0, ...).
HealthTimesTotalUnclamped(s) ==
    100 * s.total_patterns - 100 * s.issues_found
        - 20 * s.high_severity * s.total_patterns
        - 10 * s.medium_severity * s.total_patterns

\* Variant of HealthTimesTotal that adds the medium penalty.
HealthTimesTotalMediumAdded(s) ==
    LET scaled == 100 * s.total_patterns - 100 * s.issues_found
                  - 20 * s.high_severity * s.total_patterns
                  + 10 * s.medium_severity * s.total_patterns
    IN  IF scaled > 0 THEN scaled ELSE 0

HealthTimesTotal(s) ==
    LET scaled == 100 * s.total_patterns - 100 * s.issues_found
                  - 20 * s.high_severity * s.total_patterns
                  - 10 * s.medium_severity * s.total_patterns
    IN  IF scaled > 0 THEN scaled ELSE 0

\* int(x) of a non-negative fraction n/d.
Truncate(n, d) == n \div d

\* format(x, '.0f') of a non-negative fraction n/d: round half to even.
RoundHalfEven(n, d) ==
    LET q == n \div d
        r == n % d
    IN  IF 2 * r > d THEN q + 1
        ELSE IF 2 * r < d THEN q
        ELSE IF q % 2 = 0 THEN q ELSE q + 1

\* MemoryIntegration._calculate_health_score
_calculate_health_score(s) ==
    IF s.total_patterns = 0
    THEN [state |-> "raised", raised |-> TRUE, value |-> 0, rating |-> "ZeroDivisionError"]
    ELSE [state |-> "returned", raised |-> FALSE,
          value |-> Truncate(HealthTimesTotal(s), s.total_patterns),
          rating |-> "none"]

\* Lines 192-204 of ReportGenerator._generate_health_score: the rating of the
\* float health_score.
Rating(s) ==
    IF HealthTimesTotal(s) >= 90 * s.total_patterns THEN "Excellent"
    ELSE IF HealthTimesTotal(s) >= 75 * s.total_patterns THEN "Good"
    ELSE IF HealthTimesTotal(s) >= 50 * s.total_patterns THEN "Fair"
    ELSE "Needs Improvement"

\* ReportGenerator._generate_health_score: the line
\* "Project Health: <value>/100 (<rating>)".
_generate_health_score(s) ==
    IF s.total_patterns = 0
    THEN [state |-> "raised", raised |-> TRUE, value |-> 0, rating |-> "ZeroDivisionError"]
    ELSE [state |-> "returned", raised |-> FALSE,
          value |-> RoundHalfEven(HealthTimesTotal(s), s.total_patterns),
          rating |-> Rating(s)]

(***************************************************************************)
(* ReportGenerator: the sections of the report.  A detection id is the     *)
(* token sequence IdText gives, cut at every place one of the substrings   *)
(* _get_category looks for begins or ends.                                 *)
(***************************************************************************)
IdText(id) ==
    CASE id = "missing-ci-config" -> << "missing-", "ci", "-config" >>
      [] id = "missing-ci-workflow" -> << "missing-", "ci", "-", "workflow" >>
      [] id = "missing-contributing" -> << "missing-", "contributing" >>
      [] id = "missing-editorconfig" -> << "missing-", "editorconfig" >>
      [] id = "missing-eslint" -> << "missing-", "eslint" >>
      [] id = "missing-git-hooks" -> << "missing-", "git-", "hooks" >>
      [] id = "missing-gitignore" -> << "missing-", "gitignore" >>
      [] id = "missing-license" -> << "missing-", "license" >>
      [] id = "missing-prettier" -> << "missing-", "prettier" >>
      [] id = "missing-readme" -> << "missing-", "readme" >>
      [] id = "readme-minimal" -> << "readme", "-minimal" >>
      [] id = "missing-dockerignore" -> << "missing-", "docker", "ignore" >>
      [] OTHER -> << id >>

\* Lines 208-221.
_get_category(detection_id) ==
    LET text == IdText(detection_id)
        Has(needle) == \E k \in 1..Len(text) : text[k] = needle
    IN  IF Has("gitignore") \/ Has("git-") THEN "Git Configuration"
        ELSE IF Has("readme") \/ Has("contributing") \/ Has("license")
             THEN "Documentation"
        ELSE IF Has("ci") \/ Has("workflow") \/ Has("docker") THEN "CI/CD"
        ELSE IF Has("eslint") \/ Has("prettier") THEN "Code Quality"
        ELSE IF Has("editorconfig") THEN "Setup"
        ELSE "Other"

\* The keys of the dict `categories`, lines 84-90, in its order.
categories ==
    << "Git Configuration", "Documentation", "CI/CD", "Code Quality", "Setup" >>

\* Lines 93-95: each detection with the category of its id.
Categorized(dets) ==
    [k \in 1..Len(dets) |->
        [detection |-> dets[k], category |-> _get_category(dets[k].id)]]

\* Lines 97-98: the detections appended to the list of a category.
Grouped(categorized, category) ==
    LET Belongs(entry) == entry.category = category
    IN  SelectSeq(categorized, Belongs)

\* Lines 107-124: the status line of a category and the issues under it.
CategoryEntry(categorized, category) ==
    LET HasIssue(entry) == entry.detection.issue_found
        issues == SelectSeq(Grouped(categorized, category), HasIssue)
    IN  [category |-> category,
         status |-> IF issues = <<>> THEN "ok"
                    ELSE IF \E k \in 1..Len(issues) :
                                issues[k].detection.severity = "high"
                         THEN "error"
                         ELSE "warning",
         issues |-> [k \in 1..Len(issues) |-> issues[k].detection.id]]

\* Lines 82-126.  `'gitignore' in detection_id` raises for the id None.
_generate_category_status(dets) ==
    IF \E k \in 1..Len(dets) : dets[k].id = "None"
    THEN Raised("TypeError")
    ELSE LET categorized == Categorized(dets)
             Shown(category) == \E k \in 1..Len(categorized) :
                                    categorized[k].category = category
             shown == SelectSeq(categories, Shown)
         IN  Returned([k \in 1..Len(shown) |-> CategoryEntry(categorized, shown[k])])

\* Lines 157-175: the message, and the five first recommendations.
_generate_priority_actions(recs) ==
    IF recs = <<>>
    THEN [message |-> "No priority actions needed!", actions |-> <<>>]
    ELSE [message |-> "Priority Actions:",
          actions |-> [k \in 1..(IF Len(recs) < 5 THEN Len(recs) ELSE 5) |->
                          [id |-> recs[k].id, severity |-> recs[k].severity,
                           template |-> recs[k].template]]]

\* Lines 55-80: the types, the frameworks and the two counters.
_generate_project_info(results) ==
    [project_types |-> results.project_types,
     frameworks |-> results.frameworks,
     total_patterns |-> results.summary.total_patterns,
     issues_found |-> results.summary.issues_found]

\* Lines 39-49: the sections in their order; the first that raises ends
\* the call.
generate_report(results) ==
    LET status == _generate_category_status(results.detections)
        score == _generate_health_score(results.summary)
    IN  IF status.raised
        THEN [state |-> "raised", error |-> status.error]
        ELSE IF score.raised
        THEN [state |-> "raised", error |-> score.rating]
        ELSE [state |-> "returned", error |-> "none",
              project_info |-> _generate_project_info(results),
              category_status |-> status.value,
              priority_actions |-> _generate_priority_actions(results.recommendations),
              health_score |-> score]

\* Lines 37-50 of detect(): the bundle carries the types and the frameworks
\* of the inventory.
Results ==
    [project_types |-> Get(project_structure, "project_types", <<>>),
     frameworks |-> Get(project_structure, "frameworks", <<>>),
     detections |-> detections,
     recommendations |-> recommendations,
     summary |-> summary]

\* ReportGenerator(results).generate_report() on a result bundle.
GenerateReport ==
    /\ pc = "done"
    /\ line.state = "none"
    /\ report.state = "none"
    /\ LET rendered == generate_report(Results)
       IN  /\ report' = rendered
           /\ line' = IF rendered.state = "raised" /\ rendered.error = "TypeError"
                      THEN line
                      ELSE _generate_health_score(summary)
    /\ UNCHANGED <<patterns, project_structure, pc, idx, detections,
                   recommendations, summary, health, project_tree, inventory,
                   project_path, analyzer, session_id, params, previous>>

(***************************************************************************)
(* MemoryIntegration.  session_id is "" while no integration exists.  The  *)
(* outcome of a call is the record it returns or the exception it raises.  *)
(***************************************************************************)
ProjectNames == { "alpha", "beta" }

\* Lines 30-36: `session_id or self._get_project_session_id()`; None and ''
\* are both "" here, as is a session file that is missing or blank.
MemoryIntegration__init__(given, stored) ==
    LET chosen == IF given # "" THEN given ELSE stored
    IN  IF chosen = "" THEN Raised("ValueError") ELSE Returned(chosen)

\* json.dumps(content, indent=2): the text of the content.
JsonDumps(content) == [json |-> content]

create_isolated_params(session, content, tags, importance) ==
    [content |-> JsonDumps(content), tags |-> tags, importance |-> importance,
     source |-> "project-catalyst-analyzer", domain |-> "project-catalyst",
     session_filter_mode |-> "session_only", session_id |-> session]

\* Lines 96-103: the two tests of ensure_isolation.
ensure_isolation(record) ==
    IF Get(record, "session_filter_mode", "None") # "session_only"
    THEN Raised("ValueError")
    ELSE IF Get(record, "session_id", "") = ""
         THEN Raised("ValueError")
         ELSE Returned(TRUE)

Outcome(op, record, verdict) ==
    IF verdict.raised
    THEN [state |-> "raised", op |-> op, record |-> record, error |-> verdict.error]
    ELSE [state |-> "returned", op |-> op, record |-> record, error |-> "none"]

\* store_analysis, lines 117-142.  The timestamp is left out of the content.
store_analysis(session, results, project_name) ==
    LET score == _calculate_health_score(results.summary)
        content == [project_name |-> project_name,
                    patterns_detected |-> Len(results.detections),
                    issues_found |-> results.summary.issues_found,
                    recommendations |-> results.recommendations,
                    confidence_scores |->
                        { <<results.detections[k].id, results.detections[k].confidence>> :
                            k \in 1..Len(results.detections) },
                    health_score |-> score.value]
        record == create_isolated_params(
                      session, content,
                      <<"project-analysis", "catalyst", "pattern-detection", project_name>>,
                      8)
    IN  IF score.raised
        THEN [state |-> "raised", op |-> "store_analysis", record |-> <<>>,
              error |-> score.rating]
        ELSE Outcome("store_analysis", record, ensure_isolation(record))

\* retrieve_analysis_history, lines 154-166.
retrieve_analysis_history(session, project_name) ==
    LET record == [query |-> <<"project-analysis ", project_name>>,
                   tags |-> <<"project-analysis", project_name>>,
                   session_filter_mode |-> "session_only",
                   session_id |-> session,
                   limit |-> 10,
                   response_format |-> "concise"]
    IN  Outcome("retrieve_analysis_history", record, ensure_isolation(record))

\* MemoryIntegration.store_analysis(results, name) on a result bundle.
StoreAnalysis ==
    /\ pc = "done"
    /\ session_id # ""
    /\ health.state = "none"
    /\ health' = _calculate_health_score(summary)
    /\ \E project_name \in ProjectNames :
          params' = store_analysis(session_id,
                                   [detections |-> detections,
                                    recommendations |-> recommendations,
                                    summary |-> summary],
                                   project_name)
    /\ UNCHANGED <<patterns, project_structure, pc, idx, detections,
                   recommendations, summary, line, project_tree, inventory,
                   project_path, analyzer, session_id, report, previous>>

\* MemoryIntegration(session_id): the id given, the id in the session file.
ConstructIntegration ==
    /\ session_id = ""
    /\ params.state = "none"
    /\ \E given \in { "", "session-a", "session-b" } :
       \E stored \in { "", "session-f" } :
          LET made == MemoryIntegration__init__(given, stored)
          IN  IF made.raised
              THEN /\ params' = [state |-> "raised", op |-> "__init__",
                                 record |-> <<>>, error |-> made.error]
                   /\ UNCHANGED session_id
              ELSE /\ session_id' = made.value
                   /\ UNCHANGED params
    /\ UNCHANGED <<patterns, project_structure, pc, idx, detections, recommendations,
                   summary, health, line, project_tree, inventory, project_path,
                   analyzer, report, previous>>

\* create_isolated_params(content, tags, importance) called by a client.
CreateIsolatedParams ==
    /\ session_id # ""
    /\ \E content \in { [note |-> "first"], [note |-> "second"] } :
       \E tags \in { <<>>, <<"catalyst">> } :
       \E importance \in { 1, 8, 10 } :
          params' = Outcome("create_isolated_params",
                            create_isolated_params(session_id, content, tags, importance),
                            Returned(TRUE))
    /\ UNCHANGED <<patterns, project_structure, pc, idx, detections, recommendations,
                   summary, health, line, project_tree, inventory, project_path,
                   analyzer, session_id, report, previous>>

RetrieveAnalysisHistory ==
    /\ session_id # ""
    /\ \E project_name \in ProjectNames :
          params' = retrieve_analysis_history(session_id, project_name)
    /\ UNCHANGED <<patterns, project_structure, pc, idx, detections, recommendations,
                   summary, health, line, project_tree, inventory, project_path,
                   analyzer, session_id, report, previous>>

\* The records a client may hand to ensure_isolation: any filter mode or
\* none, any session id or none.
CandidateRecords ==
    { [session_filter_mode |-> m, session_id |-> i] :
        m \in { "session_only", "all" }, i \in { "", "session-a", "session-b", "session-f" } }
      \cup { [session_filter_mode |-> m] : m \in { "session_only", "all" } }
      \cup { [session_id |-> i] : i \in { "session-a", "session-b" } }

EnsureIsolation ==
    /\ session_id # ""
    /\ \E record \in CandidateRecords :
          params' = Outcome("ensure_isolation", record, ensure_isolation(record))
    /\ UNCHANGED <<patterns, project_structure, pc, idx, detections, recommendations,
                   summary, health, line, project_tree, inventory, project_path,
                   analyzer, session_id, report, previous>>

(***************************************************************************)
(* Spec: a detector is constructed on a rule set, detect() runs on         *)
(* inventories, and the bundle it returns is rendered and stored.          *)
(***************************************************************************)
Init ==
    /\ patterns \in RuleSets
    /\ project_structure = NoInventory
    /\ pc = "ready"
    /\ idx = 0
    /\ detections = <<>>
    /\ recommendations = <<>>
    /\ summary = InitialSummary(<<>>)
    /\ health = NoOutcome
    /\ line = NoOutcome
    /\ project_tree = NoTree
    /\ inventory = NotScanned
    /\ project_path = "dir"
    /\ analyzer = NotConstructed
    /\ session_id = "session-a"
    /\ params = NoParams
    /\ report = NoReport
    /\ previous = NoPrevious

Next ==
    \/ DetectBegin
    \/ DetectStep
    \/ DetectReturn
    \/ GenerateReport
    \/ StoreAnalysis

Spec == Init /\ [][Next]_vars

(***************************************************************************)
(* SpecHealth: the renderer and the scorer on result bundles read from a   *)
(* results file, whose summary holds any counters within the bounds.       *)
(***************************************************************************)
Summaries ==
    { [total_patterns |-> t, issues_found |-> i, high_severity |-> h,
       medium_severity |-> m,
       low_severity |-> IF i > h + m THEN i - h - m ELSE 0] :
        t \in 0..MaxTotal, i \in 0..MaxTotal,
        h \in 0..MaxSeverityCount, m \in 0..MaxSeverityCount }

InitHealth ==
    /\ patterns = <<>>
    /\ project_structure = NoInventory
    /\ pc = "done"
    /\ idx = 0
    /\ detections = <<>>
    /\ recommendations = <<>>
    /\ summary \in { s \in Summaries : s.issues_found <= s.total_patterns }
    /\ health = NoOutcome
    /\ line = NoOutcome
    /\ project_tree = NoTree
    /\ inventory = NotScanned
    /\ project_path = "dir"
    /\ analyzer = NotConstructed
    /\ session_id = "session-a"
    /\ params = NoParams
    /\ report = NoReport
    /\ previous = NoPrevious

NextHealth ==
    \/ GenerateReport
    \/ StoreAnalysis

SpecHealth == InitHealth /\ [][NextHealth]_vars

(***************************************************************************)
(* SpecMemory: an integration is constructed, and a client stores a result *)
(* bundle, asks for the history, builds parameter records and has records  *)
(* verified.                                                               *)
(***************************************************************************)
StoredSummaries ==
    { InitialSummary(<<>>),
      [total_patterns |-> 2, issues_found |-> 1, high_severity |-> 1,
       medium_severity |-> 0, low_severity |-> 0],
      [total_patterns |-> 3, issues_found |-> 0, high_severity |-> 0,
       medium_severity |-> 0, low_severity |-> 0] }

InitMemory ==
    /\ patterns = <<>>
    /\ project_structure = NoInventory
    /\ pc = "done"
    /\ idx = 0
    /\ detections = <<>>
    /\ recommendations = <<>>
    /\ summary \in StoredSummaries
    /\ health = NoOutcome
    /\ line = NoOutcome
    /\ project_tree = NoTree
    /\ inventory = NotScanned
    /\ project_path = "dir"
    /\ analyzer = NotConstructed
    /\ session_id = ""
    /\ params = NoParams
    /\ report = NoReport
    /\ previous = NoPrevious

NextMemory ==
    \/ ConstructIntegration
    \/ StoreAnalysis
    \/ CreateIsolatedParams
    \/ RetrieveAnalysisHistory
    \/ EnsureIsolation

SpecMemory == InitMemory /\ [][NextMemory]_vars

(***************************************************************************)
(* SpecRule: the rule loop of detect() on rule sets of one or two rules,   *)
(* drawn from the catalogue and from rules with a file-like marker listed  *)
(* first, with a missing field, or with an unknown confidence, on          *)
(* inventories that also hold a CI file and a tests directory.  Init is    *)
(* the state detect() is in when it enters the loop (line 55).             *)
(***************************************************************************)
CodeownersFile == <<"CODEOWNERS">>
NoticeFile == <<"NOTICE">>
NoticeMd == <<"NOTICE", ".md">>
DockerignoreFile == <<".dockerignore">>

ExtraRules ==
    { [id |-> "missing-ci-config", type |-> "directory_absence",
       check |-> ListCheck(<<GitlabCiYml, GithubWorkflows>>),
       confidence |-> "high", severity |-> "high",
       recommendation |-> [template |-> "ci-cd/gitlab-ci", reason |-> "ci"]],
      [id |-> "missing-notice", type |-> "file_absence",
       check |-> ListCheck(<<NoticeFile, NoticeMd>>), applies_when |-> CondDocker,
       confidence |-> "medium", severity |-> "low",
       recommendation |-> [template |-> "documentation/NOTICE", reason |-> "notice"]],
      [id |-> "missing-contributing", type |-> "file_absence",
       confidence |-> "medium", severity |-> "medium",
       recommendation |-> [template |-> "documentation/CONTRIBUTING",
                           reason |-> "contributing"]],
      [id |-> "missing-git-hooks", type |-> "directory_absence",
       confidence |-> "low", severity |-> "low"],
      [id |-> "missing-prettier", check |-> StrCheck(ReadmeMd),
       confidence |-> "low", severity |-> "medium"],
      [type |-> "file_absence", check |-> StrCheck(ReadmeMd),
       confidence |-> "high", severity |-> "low"],
      [id |-> "missing-codeowners", type |-> "file_absence",
       check |-> StrCheck(CodeownersFile), confidence |-> "certain", severity |-> "high",
       recommendation |-> [template |-> "git/CODEOWNERS", reason |-> "owners"]],
      [id |-> "missing-dockerignore", type |-> "file_absence",
       check |-> StrCheck(DockerignoreFile), confidence |-> "low", severity |-> "high",
       recommendation |-> [template |-> "docker/dockerignore", reason |-> "docker"]] }

RuleShapes == RuleCatalogue \cup ExtraRules

\* A rule without one of the required fields id, type and check.
Malformed(pattern) == ~ ({"id", "type", "check"} \subseteq DOMAIN pattern)

ShortRuleSets ==
    { <<r>> : r \in RuleShapes }
      \cup { pair \in { <<r, q>> : r \in RuleShapes, q \in RuleShapes } :
                 Get(pair[1], "id", "None") # Get(pair[2], "id", "None") }

\* line_count is the number of lines each inventoried file has on disk; the
\* inventory does not carry it.
RichInventories ==
    { [files |-> fs, directories |-> ds, line_count |-> n] :
        fs \in SUBSET { PackageJson, ReadmeMd, DocsReadmeMd, GitlabCiYml },
        ds \in SUBSET { GithubWorkflows, TestsDir },
        n \in { 1, 20 } }

InitRule ==
    /\ patterns \in ShortRuleSets
    /\ project_structure \in RichInventories
    /\ pc = "loop"
    /\ idx = 0
    /\ detections = <<>>
    /\ recommendations = <<>>
    /\ summary = InitialSummary(patterns)
    /\ health = NoOutcome
    /\ line = NoOutcome
    /\ project_tree = NoTree
    /\ inventory = NotScanned
    /\ project_path = "dir"
    /\ analyzer = NotConstructed
    /\ session_id = "session-a"
    /\ params = NoParams
    /\ report = NoReport
    /\ previous = NoPrevious

NextRule ==
    \/ DetectStep
    \/ DetectReturn

SpecRule == InitRule /\ [][NextRule]_vars

(***************************************************************************)
(* ProjectAnalyzer.  A project tree is the set of its entries, each the    *)
(* sequence of names from the root to the entry and its kind, with the     *)
(* content of the two manifests of the root.  A name is a token sequence;  *)
(* a relative path is its names joined by "/".                             *)
(***************************************************************************)
MaxEntries == 4

BuildGradle == <<"build", ".gradle">>
Jenkinsfile == <<"Jenkinsfile">>
DotGit == <<".git">>
DotGithub == <<".git", "hub">>
Workflows == <<"workflows">>
Dist == <<"dist">>
IndexJs == <<"index.js">>
Src == <<"src">>
PomXml == <<"pom.xml">>
MainPyc == <<"main", ".pyc">>
NodeModules == <<"node_modules">>
TestsName == <<"Test", "s">>

Dir(path) == [path |-> path, kind |-> "dir"]
File(path) == [path |-> path, kind |-> "file"]

Parent(path) == SubSeq(path, 1, Len(path) - 1)
Name(path) == path[Len(path)]

\* str(rel_root / name), lines 76-86.
RECURSIVE Join(_)
Join(path) ==
    IF Len(path) = 0 THEN <<>>
    ELSE IF Len(path) = 1 THEN path[1]
    ELSE path[1] \o <<"/">> \o Join(Tail(path))

EntryPool ==
    { File(<<PackageJson>>), File(<<RequirementsTxt>>), File(<<BuildGradle>>),
      File(<<Jenkinsfile>>), File(<<GitlabCiYml>>),
      Dir(<<DotGit>>), Dir(<<DotGithub>>), Dir(<<DotGithub, Workflows>>),
      Dir(<<Dist>>), File(<<Dist, IndexJs>>),
      Dir(<<Src>>), File(<<Src, PomXml>>), File(<<Src, MainPyc>>),
      Dir(<<NodeModules>>), Dir(<<TestsName>>) }

\* What json.load makes of package.json, and what opening or reading it raises.
PackageJsonContents ==
    { [kind |-> "object", dependencies |-> deps, devDependencies |-> dev] :
        deps \in { {}, { <<"react">>, <<"express">> } },
        dev \in { {}, { <<"@types/", "react">> } } }
      \cup { [kind |-> k] : k \in { "invalid_json", "not_object",
                                    "dependencies_not_mapping",
                                    "unreadable", "undecodable" } }

RequirementsTxtContents ==
    { [kind |-> "text", text |-> t] :
        t \in { <<"requests", "\n">>, <<"Django", "==4.2\n", "react", "\n">> } }
      \cup { [kind |-> k] : k \in { "unreadable", "undecodable" } }

Absent == [kind |-> "absent"]

\* The directories that exist: every entry lies in a directory of the tree,
\* and a manifest has a content exactly when the root holds the file.
WellFormedTree(tree) ==
    /\ Cardinality(tree.entries) <= MaxEntries
    /\ \A e \in tree.entries : Len(e.path) > 1 => Dir(Parent(e.path)) \in tree.entries
    /\ (tree.package_json = Absent) <=> (File(<<PackageJson>>) \notin tree.entries)
    /\ (tree.requirements_txt = Absent) <=> (File(<<RequirementsTxt>>) \notin tree.entries)

\* The trees over a pool of entries: a set of at most MaxEntries entries
\* closed under parents, with a content for each manifest it holds.
TreesOver(pool) ==
    UNION { { [entries |-> es, package_json |-> pj, requirements_txt |-> rt] :
                pj \in IF File(<<PackageJson>>) \in es
                       THEN PackageJsonContents ELSE { Absent },
                rt \in IF File(<<RequirementsTxt>>) \in es
                       THEN RequirementsTxtContents ELSE { Absent } } :
            es \in { s \in SUBSET pool :
                        /\ Cardinality(s) <= MaxEntries
                        /\ \A e \in s : Len(e.path) > 1 => Dir(Parent(e.path)) \in s } }

ProjectTrees == { tree \in TreesOver(EntryPool) : WellFormedTree(tree) }

\* skip_patterns, lines 108-112: a pattern with a leading * is a suffix.
skip_patterns ==
    << [form |-> "prefix", text |-> <<"node_modules">>],
       [form |-> "prefix", text |-> <<"__pycache__">>],
       [form |-> "prefix", text |-> <<".git">>],
       [form |-> "prefix", text |-> <<".venv">>],
       [form |-> "prefix", text |-> <<"venv">>],
       [form |-> "prefix", text |-> <<"target">>],
       [form |-> "prefix", text |-> <<"dist">>],
       [form |-> "prefix", text |-> <<"build">>],
       [form |-> "prefix", text |-> <<".next">>],
       [form |-> "prefix", text |-> <<".nuxt">>],
       [form |-> "suffix", text |-> <<".pyc">>],
       [form |-> "suffix", text |-> <<".class">>],
       [form |-> "suffix", text |-> <<".o">>],
       [form |-> "suffix", text |-> <<".so">>] >>

\* Variant of _should_skip that skips a name only when it equals a pattern
\* without '*'.
_should_skip_exact_names(name) ==
    \E k \in 1..Len(skip_patterns) :
        IF skip_patterns[k].form = "suffix"
        THEN EndsWith(name, skip_patterns[k].text)
        ELSE name = skip_patterns[k].text

_should_skip(name) ==
    \E k \in 1..Len(skip_patterns) :
        IF skip_patterns[k].form = "suffix"
        THEN EndsWith(name, skip_patterns[k].text)
        ELSE name = skip_patterns[k].text \/ StartsWith(name, skip_patterns[k].text)

\* os.walk hands out the entries of one directory: its subdirectories and
\* its files.
ChildDirs(tree, root) ==
    { e.path : e \in { c \in tree.entries : c.kind = "dir" /\ Parent(c.path) = root } }

ChildFiles(tree, root) ==
    { e.path : e \in { c \in tree.entries : c.kind = "file" /\ Parent(c.path) = root } }

\* Variant of KeptDirs that leaves dirs as os.walk handed it out.
KeptDirsUnpruned(tree, root) == ChildDirs(tree, root)

\* Line 74: dirs[:] = [d for d in dirs if not self._should_skip(d)]
KeptDirs(tree, root) ==
    { d \in ChildDirs(tree, root) : ~ _should_skip(Name(d)) }

\* The directories os.walk visits: the root, and the kept subdirectories of
\* every directory it visits.
RECURSIVE Walk(_, _)
Walk(tree, root) ==
    { root } \cup UNION { Walk(tree, d) : d \in KeptDirs(tree, root) }

\* Lines 78-81.
WalkedDirectories(tree) ==
    { Join(d) : d \in UNION { KeptDirs(tree, root) : root \in Walk(tree, <<>>) } }

\* Lines 83-87.
WalkedFiles(tree) ==
    { Join(f) : f \in { c \in UNION { ChildFiles(tree, root) : root \in Walk(tree, <<>>) } :
                          ~ _should_skip(Name(c)) } }

\* PROJECT_INDICATORS, lines 21-30, in the order of the dict.  An indicator
\* with a trailing / is a directory prefix (the text without the /), one with
\* a leading * is a suffix (the text without the *), any other a file name.
FileIndicator(text) == [form |-> "file", text |-> text]
DirIndicator(text) == [form |-> "dir", text |-> text]
PatternIndicator(text) == [form |-> "pattern", text |-> text]

PROJECT_INDICATORS ==
    << [type |-> "node",
        indicators |-> << FileIndicator(PackageJson),
                          FileIndicator(<<"package-lock.json">>),
                          DirIndicator(NodeModules) >>],
       [type |-> "python",
        indicators |-> << FileIndicator(RequirementsTxt), FileIndicator(SetupPy),
                          FileIndicator(<<"pyproject.toml">>),
                          DirIndicator(<<"__pycache__">>) >>],
       [type |-> "java",
        indicators |-> << FileIndicator(PomXml), FileIndicator(BuildGradle),
                          FileIndicator(<<"build", ".gradle", ".kts">>),
                          FileIndicator(<<"gradlew">>) >>],
       [type |-> "rust",
        indicators |-> << FileIndicator(<<"Cargo.toml">>),
                          FileIndicator(<<"Cargo.lock">>),
                          DirIndicator(<<"target">>) >>],
       [type |-> "go",
        indicators |-> << FileIndicator(<<"go.mod">>), FileIndicator(<<"go.sum">>) >>],
       [type |-> "ruby",
        indicators |-> << FileIndicator(<<"Gemfile">>),
                          FileIndicator(<<"Gemfile", ".lock">>) >>],
       [type |-> "php",
        indicators |-> << FileIndicator(<<"composer.json">>),
                          FileIndicator(<<"composer.lock">>) >>],
       [type |-> "csharp",
        indicators |-> << PatternIndicator(<<".csproj">>),
                          PatternIndicator(<<".sln">>) >>] >>

\* Lines 130-145: one indicator against the inventory.
IndicatorMatches(indicator, files, directories) ==
    CASE indicator.form = "dir" ->
             \E d \in directories : StartsWith(d, indicator.text)
      [] indicator.form = "pattern" ->
             \E f \in files : EndsWith(f, indicator.text)
      [] OTHER ->
             \/ indicator.text \in files
             \/ \E f \in files : EndsWith(f, indicator.text)

\* The list of the types with a matching indicator, each appended once
\* (the break of lines 134, 140, 145), in the order of PROJECT_INDICATORS.
_detect_project_types(files, directories) ==
    LET Detected(entry) ==
            \E k \in 1..Len(entry.indicators) :
                IndicatorMatches(entry.indicators[k], files, directories)
        matching == SelectSeq(PROJECT_INDICATORS, Detected)
    IN  [k \in 1..Len(matching) |-> matching[k].type]

\* FRAMEWORK_INDICATORS, lines 33-42.
FRAMEWORK_INDICATORS ==
    [ react |-> { <<"react">>, <<"@types/", "react">> },
      vue |-> { <<"vue">>, <<"@vue/">> },
      angular |-> { <<"@angular/">> },
      express |-> { <<"express">> },
      django |-> { <<"django">>, <<"Django">> },
      flask |-> { <<"flask">>, <<"Flask">> },
      spring |-> { <<"spring-boot">>, <<"org.springframework">> },
      laravel |-> { <<"laravel/framework">> } ]

\* Lines 154-167.  json.load raises JSONDecodeError on text that is not JSON
\* and UnicodeDecodeError on bytes that are not UTF-8; open raises OSError on
\* an unreadable file; data.get raises AttributeError when the document is
\* not an object, and {**x} raises TypeError when x is not a mapping.  The
\* handler catches JSONDecodeError and IOError.
PackageJsonFrameworks(content) ==
    CASE content.kind = "absent" -> Returned({})
      [] content.kind = "object" ->
             Returned({ framework \in DOMAIN FRAMEWORK_INDICATORS :
                          \E indicator \in FRAMEWORK_INDICATORS[framework] :
                              \E dep \in content.dependencies \cup content.devDependencies :
                                  Contains(dep, indicator) })
      [] content.kind = "invalid_json" -> Returned({})
      [] content.kind = "unreadable" -> Returned({})
      [] content.kind = "not_object" -> Raised("AttributeError")
      [] content.kind = "dependencies_not_mapping" -> Raised("TypeError")
      [] OTHER -> Raised("UnicodeDecodeError")

\* Lines 170-182.  The handler catches IOError.
RequirementsTxtFrameworks(content) ==
    CASE content.kind = "absent" -> Returned({})
      [] content.kind = "text" ->
             Returned({ framework \in DOMAIN FRAMEWORK_INDICATORS :
                          \E indicator \in FRAMEWORK_INDICATORS[framework] :
                              Contains(content.text, indicator) })
      [] content.kind = "unreadable" -> Returned({})
      [] OTHER -> Raised("UnicodeDecodeError")

\* The set of the frameworks found in the two manifests, or what escapes.
_detect_frameworks(tree) ==
    LET node == PackageJsonFrameworks(tree.package_json)
        python == RequirementsTxtFrameworks(tree.requirements_txt)
    IN  IF node.raised THEN node
        ELSE IF python.raised THEN python
        ELSE Returned(node.value \cup python.value)

\* list(set(frameworks)), line 184: the set in the order its iteration gives.
Orderings(S) ==
    { seq \in [1..Cardinality(S) -> S] : \A x \in S : \E k \in DOMAIN seq : seq[k] = x }

\* ci_indicators, lines 188-194: an indicator ending in .yml or in file is
\* looked up among the files, any other among the directories.
ci_indicators ==
    << DirIndicator(Join(<<DotGithub, Workflows>>)),
       FileIndicator(GitlabCiYml),
       FileIndicator(<<".circleci", "/", "config.yml">>),
       FileIndicator(<<"azure-pipelines.yml">>),
       FileIndicator(Jenkinsfile) >>

_check_ci_setup(files, directories) ==
    \E k \in 1..Len(ci_indicators) :
        IF ci_indicators[k].form = "file"
        THEN \/ ci_indicators[k].text \in files
             \/ \E f \in files : EndsWith(f, ci_indicators[k].text)
        ELSE \E d \in directories : StartsWith(d, ci_indicators[k].text)

\* str.lower, token by token.
LowerToken(t) ==
    CASE t = "Test" -> "test"
      [] t = "Jenkinsfile" -> "jenkinsfile"
      [] t = "Django" -> "django"
      [] OTHER -> t

Lower(s) == [k \in 1..Len(s) |-> LowerToken(s[k])]

test_indicators ==
    { <<"test">>, <<"test", "s">>, <<"spec">>, <<"__", "test", "s", "__">> }

_check_test_setup(directories) ==
    \E d \in directories : \E indicator \in test_indicators :
        Contains(Lower(d), indicator)

\* scan_structure, lines 55-104.  files and directories are lists without
\* repetition; the model keeps their sets.  project_name and project_path
\* are left out.
ScanStructure ==
    /\ analyzer.state = "constructed"
    /\ inventory.state = "none"
    /\ LET files == WalkedFiles(project_tree)
           directories == WalkedDirectories(project_tree)
           found == _detect_frameworks(project_tree)
       IN  IF found.raised
           THEN inventory' = [state |-> "raised", error |-> found.error]
           ELSE \E frameworks \in Orderings(found.value) :
                    inventory' =
                        [state |-> "returned",
                         files |-> files,
                         directories |-> directories,
                         file_count |-> Cardinality(files),
                         directory_count |-> Cardinality(directories),
                         project_types |-> _detect_project_types(files, directories),
                         frameworks |-> frameworks,
                         has_git |-> \E e \in project_tree.entries : e.path = <<DotGit>>,
                         has_ci |-> _check_ci_setup(files, directories),
                         has_tests |-> _check_test_setup(directories)]
    /\ UNCHANGED <<patterns, project_structure, pc, idx, detections, recommendations,
                   summary, health, line, project_tree,
                   project_path, analyzer, session_id, params, report, previous>>

(***************************************************************************)
(* ProjectAnalyzer(project_path), lines 44-53.  The path names nothing, a  *)
(* file or a directory.                                                    *)
(***************************************************************************)
PathKinds == { "missing", "file", "dir" }

\* Variant of ProjectAnalyzer__init__ without the is_dir test.
ProjectAnalyzer__init__anything_existing(path) ==
    IF path = "missing"
    THEN [state |-> "raised", error |-> "FileNotFoundError"]
    ELSE Constructed

ProjectAnalyzer__init__(path) ==
    IF path = "missing"
    THEN [state |-> "raised", error |-> "FileNotFoundError"]
    ELSE IF path # "dir"
         THEN [state |-> "raised", error |-> "NotADirectoryError"]
         ELSE Constructed

Construct ==
    /\ analyzer.state = "none"
    /\ analyzer' = ProjectAnalyzer__init__(project_path)
    /\ UNCHANGED <<patterns, project_structure, pc, idx, detections, recommendations,
                   summary, health, line, project_tree, inventory, project_path,
                   session_id, params, report, previous>>

(***************************************************************************)
(* SpecAnalyzer: an analyzer is constructed on a path and, when there is   *)
(* one, scan_structure is called on it.                                    *)
(***************************************************************************)
InitAnalyzer ==
    /\ patterns = <<>>
    /\ project_structure = NoInventory
    /\ pc = "ready"
    /\ idx = 0
    /\ detections = <<>>
    /\ recommendations = <<>>
    /\ summary = InitialSummary(<<>>)
    /\ health = NoOutcome
    /\ line = NoOutcome
    /\ project_path \in PathKinds
    /\ project_tree \in IF project_path = "dir" THEN ProjectTrees ELSE { NoTree }
    /\ inventory = NotScanned
    /\ analyzer = NotConstructed
    /\ session_id = "session-a"
    /\ params = NoParams
    /\ report = NoReport
    /\ previous = NoPrevious

NextAnalyzer ==
    \/ Construct
    \/ ScanStructure

SpecAnalyzer == InitAnalyzer /\ [][NextAnalyzer]_vars

(***************************************************************************)
(* SpecScan: an analyzer is constructed on a project directory and         *)
(* scan_structure is called.                                               *)
(***************************************************************************)
InitScan ==
    /\ patterns = <<>>
    /\ project_structure = NoInventory
    /\ pc = "ready"
    /\ idx = 0
    /\ detections = <<>>
    /\ recommendations = <<>>
    /\ summary = InitialSummary(<<>>)
    /\ health = NoOutcome
    /\ line = NoOutcome
    /\ project_tree \in ProjectTrees
    /\ inventory = NotScanned
    /\ project_path = "dir"
    /\ analyzer = Constructed
    /\ session_id = "session-a"
    /\ params = NoParams
    /\ report = NoReport
    /\ previous = NoPrevious

NextScan == ScanStructure

SpecScan == InitScan /\ [][NextScan]_vars

(***************************************************************************)
(* SpecPipeline: the three scripts run one after the other on a project    *)
(* directory (scan_structure, detect on the inventory it printed,          *)
(* generate_report on the bundle), and then once more, in new processes,   *)
(* on the unchanged directory with the unchanged rules.                    *)
(***************************************************************************)
BackupGitignore == <<"backup", ".git", "ignore">>

PipelinePool ==
    { File(<<GitignoreFile>>), File(<<BackupGitignore>>), File(<<PackageJson>>),
      File(<<RequirementsTxt>>), Dir(<<Src>>), File(<<Src, PomXml>>),
      Dir(<<DotGithub>>) }

PipelineTrees == { tree \in TreesOver(PipelinePool) : WellFormedTree(tree) }

\* The configurations of the pipeline: the gitignore rule, alone and behind
\* the eslint rule.
PipelineRuleSets ==
    { ps \in RuleSets :
        \/ Len(ps) = 1 /\ ps[1].id = "missing-gitignore"
        \/ Len(ps) = 2 /\ ps[1].id = "missing-eslint"
                       /\ ps[2].id = "missing-gitignore" }

\* json.dumps of the inventory and json.load of it: the record scan_structure
\* returned.
InventoryJson(scanned) == [key \in DOMAIN scanned \ { "state" } |-> scanned[key]]

\* detect() is entered with the inventory the scan printed.
DetectInventory ==
    /\ pc = "ready"
    /\ inventory.state = "returned"
    /\ project_structure' = InventoryJson(inventory)
    /\ pc' = "loop"
    /\ idx' = 0
    /\ detections' = <<>>
    /\ recommendations' = <<>>
    /\ summary' = InitialSummary(patterns)
    /\ health' = NoOutcome
    /\ line' = NoOutcome
    /\ UNCHANGED <<patterns, project_tree, inventory, project_path, analyzer,
                   session_id, params, report, previous>>

\* The pipeline has ended; it is started again in new processes.
Rerun ==
    /\ report.state # "none"
    /\ previous.state = "none"
    /\ previous' = [state |-> "run", inventory |-> inventory,
                    detections |-> detections, report |-> report]
    /\ analyzer' = NotConstructed
    /\ inventory' = NotScanned
    /\ project_structure' = NoInventory
    /\ pc' = "ready"
    /\ idx' = 0
    /\ detections' = <<>>
    /\ recommendations' = <<>>
    /\ summary' = InitialSummary(<<>>)
    /\ health' = NoOutcome
    /\ line' = NoOutcome
    /\ report' = NoReport
    /\ UNCHANGED <<patterns, project_tree, project_path, session_id, params>>

InitPipeline ==
    /\ patterns \in PipelineRuleSets
    /\ project_structure = NoInventory
    /\ pc = "ready"
    /\ idx = 0
    /\ detections = <<>>
    /\ recommendations = <<>>
    /\ summary = InitialSummary(<<>>)
    /\ health = NoOutcome
    /\ line = NoOutcome
    /\ project_tree \in PipelineTrees
    /\ inventory = NotScanned
    /\ project_path = "dir"
    /\ analyzer = NotConstructed
    /\ session_id = "session-a"
    /\ params = NoParams
    /\ report = NoReport
    /\ previous = NoPrevious

NextPipeline ==
    \/ Construct
    \/ ScanStructure
    \/ DetectInventory
    \/ DetectStep
    \/ DetectReturn
    \/ GenerateReport
    \/ Rerun

SpecPipeline == InitPipeline /\ [][NextPipeline]_vars

(***************************************************************************)
(* SpecTwice: one detector, detect() called on an inventory and then       *)
(* called again on the same inventory.                                     *)
(***************************************************************************)
TwiceRuleSets == { ps \in RuleSets : Len(ps) <= 2 }

\* The first call has returned; its bundle is kept and detect() is entered
\* again with the same inventory (lines 37-53).
DetectAgain ==
    /\ pc = "done"
    /\ previous.state = "none"
    /\ previous' = [state |-> "detect", detections |-> detections,
                    recommendations |-> recommendations, summary |-> summary]
    /\ pc' = "loop"
    /\ idx' = 0
    /\ detections' = <<>>
    /\ recommendations' = <<>>
    /\ summary' = InitialSummary(patterns)
    /\ UNCHANGED <<patterns, project_structure, health, line, project_tree, inventory,
                   project_path, analyzer, session_id, params, report>>

InitTwice ==
    /\ patterns \in TwiceRuleSets
    /\ project_structure = NoInventory
    /\ pc = "ready"
    /\ idx = 0
    /\ detections = <<>>
    /\ recommendations = <<>>
    /\ summary = InitialSummary(<<>>)
    /\ health = NoOutcome
    /\ line = NoOutcome
    /\ project_tree = NoTree
    /\ inventory = NotScanned
    /\ project_path = "dir"
    /\ analyzer = NotConstructed
    /\ session_id = "session-a"
    /\ params = NoParams
    /\ report = NoReport
    /\ previous = NoPrevious

NextTwice ==
    \/ DetectBegin
    \/ DetectStep
    \/ DetectReturn
    \/ DetectAgain

SpecTwice == InitTwice /\ [][NextTwice]_vars

(***************************************************************************)
(* Properties.                                                             *)
(***************************************************************************)
\* Position in the loaded rule list of the rule with this id.
RuleIndex(id) == CHOOSE k \in 1..Len(patterns) : patterns[k].id = id

Ids(seq) == [k \in 1..Len(seq) |-> seq[k].id]

Band(n) ==
    IF n >= 90 THEN "Excellent"
    ELSE IF n >= 75 THEN "Good"
    ELSE IF n >= 50 THEN "Fair"
    ELSE "Needs Improvement"

Clamp(v) == IF v < 0 THEN 0 ELSE IF v > 100 THEN 100 ELSE v

\* C1: at every point of detect() (after every prefix of the rule loop and in
\* the result) issues_found is the sum of the three severity counters,
\* whatever severities the rules carry.
C1_IssuesAreSumOfSeverities ==
    pc \in {"loop", "done", "raised"} =>
        summary.issues_found =
            summary.high_severity + summary.medium_severity + summary.low_severity

\* C2: the detections detect() returns are, in configuration order, exactly
\* the rules whose applies_when is absent or holds; a rule whose applies_when
\* is false leaves no detection.
C2_DetectionsAreApplicableRules ==
    pc = "done" =>
        LET applies(p) == Applicable(p, project_structure.files,
                                     project_structure.directories)
        IN  Ids(detections) = Ids(SelectSeq(patterns, applies))

C2_Witness ==
    /\ pc = "done"
    /\ Len(detections) >= 2
    /\ \E k \in 1..Len(patterns) :
          /\ k < Len(patterns)
          /\ ~ Applicable(patterns[k], project_structure.files,
                          project_structure.directories)

\* C3: the recommendations detect() returns are in non-increasing order of
\* priority_score, and two of equal score are in the order of their rules.
C3_RecommendationsSortedStable ==
    pc = "done" =>
        \A a, b \in 1..Len(recommendations) :
            a < b =>
                /\ recommendations[a].priority_score >= recommendations[b].priority_score
                /\ recommendations[a].priority_score = recommendations[b].priority_score
                     => RuleIndex(recommendations[a].id) < RuleIndex(recommendations[b].id)

C3_Witness ==
    /\ pc = "done"
    /\ Len(recommendations) = 3
    /\ recommendations[1].priority_score > recommendations[2].priority_score
    /\ recommendations[2].priority_score = recommendations[3].priority_score
    /\ RuleIndex(recommendations[1].id) = 3

\* C4: the integer on the report's health-score line is the integer the
\* Health Scorer returns for the same summary.
C4_RenderedScoreIsHealthScore ==
    (line.state = "returned" /\ health.state = "returned") =>
        line.value = health.value

\* C5: with total_patterns = 0 the scorer and the renderer raise nothing and
\* give clamp(0, 100, 100 - 20*high_severity - 10*medium_severity).
C5_ZeroPatternsScoredWithoutError ==
    summary.total_patterns = 0 =>
        LET expected == Clamp(100 - 20 * summary.high_severity
                                  - 10 * summary.medium_severity)
        IN  /\ health.state # "none" =>
                  (health.state = "returned" /\ health.value = expected)
            /\ line.state # "none" =>
                  (line.state = "returned" /\ line.value = expected)

\* C6: for total_patterns >= 1 and 0 <= issues_found <= total_patterns the
\* health score is an integer in 0..100; it is 0 for (10, 10, 10) and 100 for
\* a summary without issues.
C6_HealthScoreInRange ==
    (summary.total_patterns >= 1 /\ health.state # "none") =>
        /\ health.state = "returned"
        /\ health.value \in 0..100
        /\ (summary.total_patterns = 10 /\ summary.issues_found = 10
              /\ summary.high_severity = 10) => health.value = 0
        /\ (summary.issues_found = 0 /\ summary.high_severity = 0
              /\ summary.medium_severity = 0) => health.value = 100

C6_Witness ==
    /\ health.state = "returned"
    /\ summary.total_patterns = 10
    /\ summary.issues_found = 10
    /\ summary.high_severity = 10
    /\ health.value = 0

\* C7: for a fixed total_patterns >= 1 the health score of a summary is at
\* least the health score of the summary with issues_found, high_severity or
\* medium_severity larger by one, in the scorer and on the report line.
C7_HealthScoreMonotone ==
    summary.total_patterns >= 1 =>
        \A field \in {"issues_found", "high_severity", "medium_severity"} :
            LET more == [summary EXCEPT ![field] = @ + 1]
            IN  /\ health.state = "returned" =>
                      _calculate_health_score(more).value <= health.value
                /\ line.state = "returned" =>
                      _generate_health_score(more).value <= line.value

C7_Witness ==
    /\ health.state = "returned"
    /\ line.state = "returned"
    /\ summary.total_patterns = 3
    /\ summary.issues_found = 1
    /\ health.value > _calculate_health_score(
                          [summary EXCEPT !.medium_severity = @ + 1]).value
    /\ health.value > _calculate_health_score(
                          [summary EXCEPT !.issues_found = @ + 1]).value

\* C8: the rating on the health-score line is the band of the integer
\* printed on that line.
C8_RatingIsBandOfPrintedScore ==
    line.state = "returned" => line.rating = Band(line.value)

\* C9: total_patterns in the result of detect() is the number of loaded
\* rules, the rules without a detection included.
C9_TotalPatternsIsRuleCount ==
    pc = "done" => summary.total_patterns = Len(patterns)

C9_Witness ==
    /\ pc = "done"
    /\ Len(patterns) = 3
    /\ Len(detections) = 1
    /\ summary.total_patterns = 3

\* C10: the recommendations detect() returns are one for each detection with
\* issue_found whose rule defines a recommendation, and no others; a
\* detection without issue_found has no recommendation field.
C10_RecommendationsMatchIssues ==
    pc = "done" =>
        LET flagged == { k \in 1..Len(detections) :
                            /\ detections[k].issue_found
                            /\ "recommendation" \in
                                 DOMAIN patterns[RuleIndex(detections[k].id)] }
        IN  /\ \A k \in 1..Len(detections) :
                  ~ detections[k].issue_found =>
                      "recommendation" \notin DOMAIN detections[k]
            /\ Len(recommendations) = Cardinality(flagged)
            /\ { recommendations[r].id : r \in 1..Len(recommendations) }
                 = { detections[k].id : k \in flagged }

C10_Witness ==
    /\ pc = "done"
    /\ Len(recommendations) = 1
    /\ \E k \in 1..Len(detections) :
          /\ detections[k].issue_found
          /\ "recommendation" \notin DOMAIN patterns[RuleIndex(detections[k].id)]
    /\ \E k \in 1..Len(detections) :
          /\ ~ detections[k].issue_found
          /\ "recommendation" \in DOMAIN patterns[RuleIndex(detections[k].id)]

(***************************************************************************)
(* Properties of the rule checks.                                          *)
(***************************************************************************)
RuleId(k) == Get(patterns[k], "id", "None")

RuleType(k) == Get(patterns[k], "type", "None")

\* The rule at position k applies to the inventory of this run.
AppliesHere(k) ==
    Applicable(patterns[k], project_structure.files, project_structure.directories)

\* detect() raised while it evaluated the rule at position k.
RaisedAt(k) == pc = "raised" /\ idx + 1 = k

HasDetection(k) == \E j \in 1..Len(detections) : detections[j].id = RuleId(k)

DetectionOf(k) ==
    detections[CHOOSE j \in 1..Len(detections) : detections[j].id = RuleId(k)]

\* path is an inventory file or the end of one.
FilePresent(path) ==
    \/ path \in project_structure.files
    \/ \E f \in project_structure.files : EndsWith(f, path)

FileLike(marker) == EndsWith(marker, <<".yml">>) \/ EndsWith(marker, <<".yaml">>)

MarkerPresent(marker) ==
    IF FileLike(marker)
    THEN marker \in project_structure.files
    ELSE \E d \in project_structure.directories : StartsWith(d, marker)

\* C11: a file_absence rule, its check a path or a list of paths, is
\* evaluated without an exception and its detection has issue_found exactly
\* when none of the listed files is present (as a file path or the end of one).
C11_FileAbsenceIffNoListedFile ==
    \A k \in 1..Len(patterns) :
        (RuleType(k) = "file_absence" /\ "check" \in DOMAIN patterns[k]) =>
            /\ ~ RaisedAt(k)
            /\ (k <= idx /\ AppliesHere(k)) =>
                  /\ HasDetection(k)
                  /\ DetectionOf(k).issue_found =
                       (\A i \in 1..Len(patterns[k].check.paths) :
                            ~ FilePresent(patterns[k].check.paths[i]))

\* C12: the detection of a directory_absence rule has issue_found exactly
\* when none of its markers is present: no inventory directory starts with a
\* directory marker and no .yml/.yaml marker is an inventory file.
C12_DirectoryAbsenceIffNoMarker ==
    \A k \in 1..Len(patterns) :
        (RuleType(k) = "directory_absence" /\ "check" \in DOMAIN patterns[k]
           /\ k <= idx /\ AppliesHere(k)) =>
            /\ HasDetection(k)
            /\ DetectionOf(k).issue_found =
                 (\A i \in 1..Len(patterns[k].check.paths) :
                      ~ MarkerPresent(patterns[k].check.paths[i]))

\* C13: the detection of a file_quality rule with a minimum line count has
\* issue_found exactly when the checked file is in the inventory and has
\* fewer lines than the minimum.
C13_FileQualityIffFileFailsCriteria ==
    \A k \in 1..Len(patterns) :
        (RuleType(k) = "file_quality" /\ "check" \in DOMAIN patterns[k]
           /\ "criteria" \in DOMAIN patterns[k]
           /\ k <= idx /\ AppliesHere(k)) =>
            /\ HasDetection(k)
            /\ DetectionOf(k).issue_found =
                 (/\ patterns[k].check.paths[1] \in project_structure.files
                  /\ project_structure.line_count < patterns[k].criteria.min_lines)

\* C14: when one rule of the set lacks id, type or check, detect() does not
\* raise on that rule and its result has a detection for every other rule
\* that applies.
C14_MalformedRuleTolerated ==
    \A k \in 1..Len(patterns) :
        (/\ Malformed(patterns[k])
         /\ \A j \in 1..Len(patterns) : j # k => ~ Malformed(patterns[j])) =>
            /\ ~ RaisedAt(k)
            /\ pc = "done" =>
                  \A j \in 1..Len(patterns) :
                      (j # k /\ AppliesHere(j)) => HasDetection(j)

\* The condition text matches none of the forms _check_condition knows.
Unrecognized(condition) ==
    /\ condition # <<>>
    /\ ~ Contains(condition, <<"package.json exists">>)
    /\ ~ Contains(condition, <<"requirements.txt">>)
    /\ ~ Contains(condition, <<"setup.py exists">>)
    /\ ~ Contains(condition, <<"pom.xml">>)
    /\ ~ Contains(condition, <<"build.gradle exists">>)

\* C15: a rule whose applies_when matches no recognized form yields a
\* detection on every inventory.
C15_UnrecognizedConditionYieldsDetection ==
    \A k \in 1..Len(patterns) :
        Unrecognized(AppliesWhen(patterns[k])) =>
            /\ ~ RaisedAt(k)
            /\ k <= idx => HasDetection(k)

\* The tables of the Priority Scorer, in tenths (weights, multipliers) and
\* units (bases); their product is the score in hundredths.
ConfidenceWeight(c) ==
    CASE c = "high" -> 10 [] c = "medium" -> 7 [] c = "low" -> 4 [] OTHER -> 7

SeverityBase(v) ==
    CASE v = "high" -> 10 [] v = "medium" -> 5 [] v = "low" -> 2 [] OTHER -> 5

SeverityMultiplier(v) ==
    CASE v = "high" -> 10 [] v = "medium" -> 6 [] v = "low" -> 3 [] OTHER -> 6

\* C16: the priority_score of every recommendation is confidence_weight *
\* severity_multiplier * severity_base of its confidence and severity, with
\* the defaults for other values; (high, high) gives 10.0 and (medium,
\* medium) gives 2.1.
C16_PriorityIsProductOfTables ==
    \A r \in 1..Len(recommendations) :
        LET rec == recommendations[r]
        IN  /\ rec.priority_score =
                 ConfidenceWeight(rec.confidence) * SeverityMultiplier(rec.severity)
                     * SeverityBase(rec.severity)
            /\ (rec.confidence = "high" /\ rec.severity = "high")
                  => rec.priority_score = 1000
            /\ (rec.confidence = "medium" /\ rec.severity = "medium")
                  => rec.priority_score = 210

C16_Witness ==
    /\ pc = "done"
    /\ \E r \in 1..Len(recommendations) :
          /\ recommendations[r].confidence = "medium"
          /\ recommendations[r].severity = "medium"
          /\ recommendations[r].priority_score = 210
    /\ \E r \in 1..Len(recommendations) :
          /\ recommendations[r].confidence = "certain"
          /\ recommendations[r].priority_score = 700

(***************************************************************************)
(* The scanner.                                                            *)
(***************************************************************************)
\* The names between the "/" of a relative path.
RECURSIVE Components(_)
Components(path) ==
    IF \A k \in 1..Len(path) : path[k] # "/"
    THEN <<path>>
    ELSE LET cut == CHOOSE k \in 1..Len(path) :
                        path[k] = "/" /\ \A j \in 1..(k - 1) : path[j] # "/"
         IN  <<SubSeq(path, 1, cut - 1)>> \o Components(SubSeq(path, cut + 1, Len(path)))

ExcludedPrefixes ==
    { <<"node_modules">>, <<"__pycache__">>, <<".git">>, <<".venv">>, <<"venv">>,
      <<"target">>, <<"dist">>, <<"build">>, <<".next">>, <<".nuxt">> }

ExcludedSuffixes == { <<".pyc">>, <<".class">>, <<".o">>, <<".so">> }

MatchesExclusionPolicy(name) ==
    \/ \E prefix \in ExcludedPrefixes : StartsWith(name, prefix)
    \/ \E suffix \in ExcludedSuffixes : EndsWith(name, suffix)

Scanned == inventory.state = "returned"

\* C17: in every inventory scan_structure returns, no path of files or of
\* directories has a component (a directory on the path or the final name)
\* that equals or starts with an excluded name or ends in an excluded
\* suffix; nothing beneath an excluded directory is listed.
C17_NoExcludedComponentListed ==
    Scanned =>
        \A path \in inventory.files \cup inventory.directories :
            \A k \in 1..Len(Components(path)) :
                ~ MatchesExclusionPolicy(Components(path)[k])

\* A tree with a file beneath dist and a compiled file beneath src has been
\* scanned, and src is listed.
C17_Witness ==
    /\ Scanned
    /\ File(<<Dist, IndexJs>>) \in project_tree.entries
    /\ File(<<Src, MainPyc>>) \in project_tree.entries
    /\ Join(<<Src>>) \in inventory.directories

\* The tree holds the indicator: a file of that name, a directory whose name
\* starts with the prefix, or a file whose name ends in the suffix.
IndicatorInTree(indicator) ==
    \E e \in project_tree.entries :
        CASE indicator.form = "dir" ->
                 e.kind = "dir" /\ StartsWith(Name(e.path), indicator.text)
          [] indicator.form = "pattern" ->
                 e.kind = "file" /\ EndsWith(Name(e.path), indicator.text)
          [] OTHER ->
                 e.kind = "file" /\ Name(e.path) = indicator.text

Occurrences(seq, x) == Cardinality({ k \in DOMAIN seq : seq[k] = x })

\* C18: for every ecosystem of PROJECT_INDICATORS, project_types holds the
\* ecosystem exactly once when the scanned tree holds one of its indicators,
\* and does not hold it when the tree holds none.
C18_ProjectTypesAreEcosystemsPresent ==
    Scanned =>
        \A k \in 1..Len(PROJECT_INDICATORS) :
            LET entry == PROJECT_INDICATORS[k]
                present == \E j \in 1..Len(entry.indicators) :
                               IndicatorInTree(entry.indicators[j])
            IN  Occurrences(inventory.project_types, entry.type)
                    = IF present THEN 1 ELSE 0

\* The root of the tree holds one of the CI markers.
CiMarkerInTree ==
    \/ Dir(<<DotGithub, Workflows>>) \in project_tree.entries
    \/ File(<<GitlabCiYml>>) \in project_tree.entries
    \/ File(<<<<".circleci">>, <<"config.yml">>>>) \in project_tree.entries
    \/ File(<<<<"azure-pipelines.yml">>>>) \in project_tree.entries
    \/ File(<<Jenkinsfile>>) \in project_tree.entries

\* C19: scan_structure sets has_ci whenever the tree holds a CI marker.
C19_HasCiWhenMarkerPresent ==
    Scanned => (CiMarkerInTree => inventory.has_ci)

\* A manifest whose content is not what the scanner expects.
MalformedManifest(content) == content.kind \notin { "absent", "object", "text" }

Range(seq) == { seq[k] : k \in DOMAIN seq }

\* C20: whatever the content of package.json and of requirements.txt,
\* scan_structure returns an inventory, and a malformed manifest contributes
\* no framework: the frameworks are then those of the other manifest.
C20_MalformedManifestTolerated ==
    inventory.state # "none" =>
        /\ inventory.state = "returned"
        /\ MalformedManifest(project_tree.package_json) =>
               Range(inventory.frameworks)
                   \subseteq IF MalformedManifest(project_tree.requirements_txt)
                             THEN {}
                             ELSE RequirementsTxtFrameworks(project_tree.requirements_txt).value
        /\ MalformedManifest(project_tree.requirements_txt) =>
               Range(inventory.frameworks)
                   \subseteq IF MalformedManifest(project_tree.package_json)
                             THEN {}
                             ELSE PackageJsonFrameworks(project_tree.package_json).value

(***************************************************************************)
(* Construction of the analyzer.                                           *)
(***************************************************************************)
\* C21: constructing ProjectAnalyzer raises FileNotFoundError when the root
\* path does not exist and NotADirectoryError when it names something that
\* is not a directory, and then there is no analyzer and no inventory; on an
\* existing directory the construction succeeds.
C21_ConstructionFailsOffDirectories ==
    /\ inventory.state # "none" => analyzer.state = "constructed"
    /\ analyzer.state # "none" =>
          /\ project_path = "missing" =>
                 analyzer = [state |-> "raised", error |-> "FileNotFoundError"]
          /\ project_path = "file" =>
                 analyzer = [state |-> "raised", error |-> "NotADirectoryError"]
          /\ project_path = "dir" => analyzer.state = "constructed"

\* The construction on a file has raised.
C21_Witness ==
    /\ project_path = "file"
    /\ analyzer.state = "raised"
    /\ inventory.state = "none"

(***************************************************************************)
(* Isolation of the records handed to the memory service.                  *)
(***************************************************************************)
\* The record carries the filter mode session_only and the non-empty session
\* id of the integration.
Isolated(record) ==
    /\ Get(record, "session_filter_mode", "None") = "session_only"
    /\ Get(record, "session_id", "") # ""
    /\ Get(record, "session_id", "") = session_id

\* C22: every record store_analysis, retrieve_analysis_history or
\* create_isolated_params returns has session_filter_mode session_only and
\* the non-empty session id of the integration, and ensure_isolation raises
\* ValueError on every record that has not.
C22_RecordsIsolatedAndViolationsRejected ==
    /\ (params.state = "returned" /\ params.op # "ensure_isolation") =>
           Isolated(params.record)
    /\ (params.state # "none" /\ params.op = "ensure_isolation"
            /\ ~ Isolated(params.record)) =>
           (params.state = "raised" /\ params.error = "ValueError")

(***************************************************************************)
(* The report.                                                             *)
(***************************************************************************)
\* C23: generate_report returns a report for every bundle whose detections
\* and recommendations are empty, whatever its counters, and the priority
\* section is then the message that no action is needed.
C23_EmptyBundleRendered ==
    (report.state # "none" /\ detections = <<>> /\ recommendations = <<>>) =>
        /\ report.state = "returned"
        /\ report.priority_actions.message = "No priority actions needed!"

(***************************************************************************)
(* The pipeline run twice.                                                 *)
(***************************************************************************)
\* C24: the second run of the pipeline on the unchanged tree with the
\* unchanged rules yields the inventory, the detections and the report of
\* the first run, the order of the frameworks included.
C24_SecondRunEqualsFirst ==
    previous.state = "run" =>
        /\ inventory.state # "none" => inventory = previous.inventory
        /\ pc = "done" => detections = previous.detections
        /\ report.state # "none" => report = previous.report

(***************************************************************************)
(* detect() and its inputs.                                                *)
(***************************************************************************)
\* C25: a call of detect() changes neither the inventory it was given nor
\* the loaded rules, the recommendation template of a rule with a selected
\* variant included, and the second call on the same inventory returns the
\* bundle the first call returned.
C25_DetectLeavesInputsUnchanged ==
    [][/\ patterns' = patterns
       /\ pc # "ready" => project_structure' = project_structure
       /\ (previous'.state = "detect" /\ pc' = "done") =>
              /\ detections' = previous'.detections
              /\ recommendations' = previous'.recommendations
              /\ summary' = previous'.summary]_vars

\* The second call has returned a recommendation whose template is a
\* variant's and not the rule's own.
C25_Witness ==
    /\ previous.state = "detect"
    /\ pc = "done"
    /\ \E k \in 1..Len(detections) :
          /\ "recommendation" \in DOMAIN detections[k]
          /\ \E r \in 1..Len(patterns) :
                /\ patterns[r].id = detections[k].id
                /\ patterns[r].recommendation.template
                      # detections[k].recommendation.template

(***************************************************************************)
(* The template of a recommendation.                                       *)
(***************************************************************************)
\* The variants of a recommendation whose condition holds on the inventory.
HoldingVariants(recommendation) ==
    { k \in 1..Len(Get(recommendation, "variants", <<>>)) :
        _check_condition(Get(recommendation.variants[k], "condition", <<>>),
                         project_structure.files, project_structure.directories) }

ExpectedTemplate(recommendation) ==
    IF HoldingVariants(recommendation) = {}
    THEN recommendation.template
    ELSE LET first == CHOOSE k \in HoldingVariants(recommendation) :
                          \A j \in HoldingVariants(recommendation) : k <= j
         IN  recommendation.variants[first].template

\* C26: the template of a detection's recommendation, and of the
\* recommendation emitted for it, is that of the first variant in list order
\* whose condition holds on the inventory, and the rule's own template when
\* no variant's condition holds or the rule has no variants.
C26_TemplateIsFirstHoldingVariant ==
    /\ \A k \in 1..Len(detections) :
          (detections[k].issue_found
             /\ "recommendation" \in DOMAIN patterns[RuleIndex(detections[k].id)]) =>
                /\ "recommendation" \in DOMAIN detections[k]
                /\ detections[k].recommendation.template =
                     ExpectedTemplate(patterns[RuleIndex(detections[k].id)].recommendation)
    /\ \A r \in 1..Len(recommendations) :
          recommendations[r].template =
              ExpectedTemplate(patterns[RuleIndex(recommendations[r].id)].recommendation)

\* Two variants hold on the inventory and the first one's template was
\* emitted.
C26_Witness ==
    /\ pc = "done"
    /\ {PackageJson, RequirementsTxt} \subseteq project_structure.files
    /\ \E r \in 1..Len(recommendations) :
          /\ recommendations[r].id = "missing-gitignore"
          /\ recommendations[r].template = "git/gitignore-node"
          /\ Cardinality(HoldingVariants(
                 patterns[RuleIndex("missing-gitignore")].recommendation)) >= 2

(***************************************************************************)
(* The per-category section of the report.                                 *)
(***************************************************************************)
\* The detections with an issue that the taxonomy puts into a category.
IssuesOf(category) ==
    { k \in 1..Len(detections) :
        detections[k].issue_found /\ _get_category(detections[k].id) = category }

\* C27: every detection with an issue is listed in the report under the
\* category its id gives it, Other included, and the status of a listed
\* category is error with a high issue, warning with issues none of which
\* is high, and ok without issues.
C27_IssuesListedUnderTheirCategory ==
    report.state = "returned" =>
        /\ \A k \in 1..Len(detections) :
              detections[k].issue_found =>
                  \E e \in 1..Len(report.category_status) :
                      /\ report.category_status[e].category
                            = _get_category(detections[k].id)
                      /\ \E i \in 1..Len(report.category_status[e].issues) :
                            report.category_status[e].issues[i] = detections[k].id
        /\ \A e \in 1..Len(report.category_status) :
              LET issues == IssuesOf(report.category_status[e].category)
              IN  report.category_status[e].status =
                      IF issues = {} THEN "ok"
                      ELSE IF \E k \in issues : detections[k].severity = "high"
                           THEN "error"
                           ELSE "warning"

(***************************************************************************)
(* Severity dominates the order of the recommendations.                    *)
(***************************************************************************)
SeverityRank(v) == IF v = "high" THEN 3 ELSE IF v = "medium" THEN 2 ELSE 1

Confidences == { "high", "medium", "low", "certain", "none" }

PriorityOf(c, v) == _calculate_priority([confidence |-> c, severity |-> v])

\* C28: in the recommendations detect() returns, those of severity high
\* come before those of severity medium, which come before those of
\* severity low, since the score of a high severity exceeds that of a
\* medium one, which exceeds that of a low one, for all confidences, the
\* unrecognized ones included.
C28_SeverityDominatesOrder ==
    /\ \A c, d \in Confidences :
          /\ PriorityOf(c, "high") > PriorityOf(d, "medium")
          /\ PriorityOf(c, "medium") > PriorityOf(d, "low")
    /\ pc = "done" =>
          \A i, j \in 1..Len(recommendations) :
              (/\ i < j
               /\ {recommendations[i].severity, recommendations[j].severity}
                     \subseteq {"high", "medium", "low"}) =>
                  SeverityRank(recommendations[i].severity)
                      >= SeverityRank(recommendations[j].severity)

\* A rule of medium severity and high confidence was evaluated before a
\* rule of high severity and low confidence, and the recommendation of the
\* second comes first.
C28_Witness ==
    /\ pc = "done"
    /\ Len(recommendations) = 2
    /\ recommendations[1].severity = "high"
    /\ recommendations[1].confidence = "low"
    /\ recommendations[2].severity = "medium"
    /\ recommendations[2].confidence = "high"
    /\ Get(patterns[1], "id", "None") = recommendations[2].id

(***************************************************************************)
(* Names starting with .git.                                               *)
(***************************************************************************)
\* The project has a .gitignore file in its root and no other file whose
\* name ends in .gitignore.
OnlyRootGitignore ==
    /\ File(<<GitignoreFile>>) \in project_tree.entries
    /\ \A entry \in project_tree.entries :
          (entry.kind = "file" /\ EndsWith(Name(entry.path), GitignoreFile)) =>
              entry.path = <<GitignoreFile>>

\* C29: scan_structure lists no file and no directory whose name starts
\* with .git; so when the root of the project holds a .gitignore file and
\* no other file has a name ending in .gitignore, a file_absence rule with
\* the check .gitignore evaluated on the scan's inventory has issue_found
\* TRUE.
C29_GitNamesUnlistedGitignoreReportedMissing ==
    /\ Scanned =>
          \A path \in inventory.files \cup inventory.directories :
              ~ StartsWith(Components(path)[Len(Components(path))], DotGit)
    /\ (Scanned /\ OnlyRootGitignore /\ pc \in {"loop", "done"}) =>
          \A k \in 1..Len(patterns) :
              (/\ k <= idx
               /\ patterns[k].type = "file_absence"
               /\ patterns[k].check = StrCheck(GitignoreFile)) =>
                  \E j \in 1..Len(detections) :
                      /\ detections[j].id = patterns[k].id
                      /\ detections[j].issue_found

\* A project with a .gitignore file in its root has been scanned and the
\* gitignore rule has reported the file missing.
C29_Witness ==
    /\ Scanned
    /\ OnlyRootGitignore
    /\ pc = "done"
    /\ \E j \in 1..Len(detections) :
          /\ detections[j].id = "missing-gitignore"
          /\ detections[j].issue_found

(***************************************************************************)
(* The counters of detect() against each other.                            *)
(***************************************************************************)
\* C30: at every step of the loop of detect() and in its result,
\* len(recommendations) <= issues_found <= len(detections) <= rules
\* processed so far <= total_patterns, and issues_found is the number of
\* detections with issue_found.
C30_CountersOrdered ==
    /\ Len(recommendations) <= summary.issues_found
    /\ summary.issues_found <= Len(detections)
    /\ Len(detections) <= idx
    /\ idx <= summary.total_patterns
    /\ summary.issues_found =
          Cardinality({ k \in 1..Len(detections) : detections[k].issue_found })

\* detect() has returned with fewer recommendations than issues, fewer
\* issues than detections and fewer detections than rules.
C30_Witness ==
    /\ pc = "done"
    /\ Len(recommendations) < summary.issues_found
    /\ summary.issues_found < Len(detections)
    /\ Len(detections) < idx
    /\ idx = summary.total_patterns
====
